---- MODULE Spec2Model ----
(***************************************************************************)
(* Model of src/render.rs of lintrunner: render_lint_messages (the report  *)
(* renderer with its diff and context-window bodies) and print_error (the  *)
(* error chain renderer).                                                  *)
(*                                                                         *)
(* An Option<T> is a sequence of length at most one: None is << >> and     *)
(* Some(x) is <<x>>.  An absolute path is represented by its rank in the   *)
(* order of AbsPath.  What is written to a terminal is a sequence of       *)
(* events, one per header, separator, diff line or context line; blank     *)
(* lines and styling are not recorded.                                     *)
(***************************************************************************)
EXTENDS Integers, Sequences, FiniteSets, TLC

VARIABLES
    lint_messages,  \* the HashMap<AbsPath, Vec<LintMessage>> given to render_lint_messages
    paths,          \* the sorted Vec<&AbsPath>
    path_pos,       \* position of `for path in paths`
    msg_pos,        \* position of `for lint_message in lint_messages`
    pc,             \* where render_lint_messages is
    stdout,         \* events written to Term::stdout()
    result,         \* what render_lint_messages returned
    err_path,       \* the path carried by the returned error's context
    cwd_calls,      \* results of the calls of std::env::current_dir so far
    rel_calls,      \* paths given to path_relative_from so far, with the results
    file_reads,     \* calls of fs::read_to_string so far, with the results
    w_lines,        \* context window: number of lines of the re-read file
    w_line_number,  \* context window: the finding's line
    w_out,          \* context window: what the extraction printed
    w_res,          \* context window: how the extraction ended
    d_groups,       \* diff: the result of diff.grouped_ops(3)
    d_idx,          \* diff: position of the loop over the groups
    d_out,          \* diff: what the loop printed
    chain,          \* print_error: err.chain(), the error first
    chain_pos,      \* print_error: position in the chain
    stderr,         \* events written to Term::stderr()
    e_res           \* what print_error returned

render_vars == <<lint_messages, paths, path_pos, msg_pos, pc, stdout, result,
                 err_path, cwd_calls, rel_calls, file_reads>>
window_vars == <<w_lines, w_line_number, w_out, w_res>>
diff_vars == <<d_groups, d_idx, d_out>>
error_vars == <<chain, chain_pos, stderr, e_res>>
vars == <<render_vars, window_vars, diff_vars, error_vars>>

----
\* Bounds of the model.
MaxPaths == 2
MaxTotalFindings == 2
MaxFileLines == 8
MaxLine == 12
MaxHunks == 3
MaxChanges == 1
MaxCauses == 3
MaxMsgs == 2

----
\* Small helpers.
None == << >>

Some(x) == <<x>>

IsSome(o) == Len(o) = 1

Min(a, b) == IF a < b THEN a ELSE b

Max(a, b) == IF a > b THEN a ELSE b

\* usize::saturating_sub
saturating_sub(a, b) == IF a > b THEN a - b ELSE 0

RECURSIVE Sum(_, _)
Sum(f, S) == IF S = {} THEN 0
             ELSE LET x == CHOOSE y \in S : TRUE IN f[x] + Sum(f, S \ {x})

RECURSIVE Flatten(_)
Flatten(ss) == IF ss = << >> THEN << >> ELSE Head(ss) \o Flatten(Tail(ss))

IsPrefix(s, t) == Len(s) <= Len(t) /\ SubSeq(t, 1, Len(s)) = s

----
\* The data of the render.
Paths == 1..MaxPaths

\* The Ord of AbsPath, on the ranks.
PathLess(a, b) == a < b

\* The lines carried by the findings of the report, and what the file re-read
\* for them may hold: the finding of line 2 against files of 0, 1 and 3 lines.
RenderLines == {2}

RenderFileLens == {0, 1, 3}

\* LintMessage: the fields the body depends on.
LintMessage == [original : {None, Some("a")},
                replacement : {None, Some("b")},
                line : {None} \cup {Some(n) : n \in RenderLines}]

ChangeTag == {"Delete", "Insert", "Equal"}

\* A group of grouped_ops, as the changes iter_inline_changes yields for it.
Groups == UNION {[1..n -> ChangeTag] : n \in 1..MaxChanges}

\* grouped_ops results drawn for the findings of the report.
RenderDiffs == {<< >>, <<<<"Delete">>>>, <<<<"Delete">>, <<"Insert">>>>}

\* Results of std::env::current_dir, path_relative_from, fs::read_to_string
\* (the number of lines, or unreadable) and of a write to the terminal.
CurrentDirResults == {"Ok", "Err"}

RelativeResults == {"Some", "None"}

Unreadable == 0 - 1

ReadResults == {Unreadable} \cup RenderFileLens

FileEv(p) == [k |-> "file", path |-> p]

FindingEv(f) == [k |-> "finding", f |-> f]

SepEv == [k |-> "sep"]

ChangeEv(tag) == [k |-> "change", tag |-> tag]

CtxEv(n, hl) == [k |-> "ctx", n |-> n, hl |-> hl]

OkEv == [k |-> "ok"]

----
\* Context window (render.rs 129-157).
CONTEXT_LINES == 3

line_idx(line_number) == saturating_sub(line_number, 1)

max_idx(n) == saturating_sub(n, 1)

start_idx(line_number) == saturating_sub(line_idx(line_number), CONTEXT_LINES)

\* The end of the window not clipped at the last line.
end_idx_unclipped(n, line_number) == line_idx(line_number) + CONTEXT_LINES

end_idx(n, line_number) == Min(max_idx(n), line_idx(line_number) + CONTEXT_LINES)

\* for cur_idx in start_idx..=end_idx: lines.get(cur_idx) fails outside the
\* n lines of the file; the line of line_idx gets the chevron.
RECURSIVE ContextLoop(_, _, _, _, _)
ContextLoop(cur_idx, last, n, line_number, out) ==
    IF cur_idx > last THEN [out |-> out, err |-> FALSE]
    ELSE IF cur_idx >= n THEN [out |-> out, err |-> TRUE]
    ELSE ContextLoop(cur_idx + 1, last, n, line_number,
                     Append(out, CtxEv(cur_idx + 1, cur_idx = line_idx(line_number))))

ContextWindow(n, line_number) ==
    ContextLoop(start_idx(line_number), end_idx(n, line_number), n, line_number, << >>)

----
\* The separator written before every group, the first included.
DiffGroupSepAlways(idx, group) ==
    <<SepEv>> \o [i \in 1..Len(group) |-> ChangeEv(group[i])]

\* Diff body (render.rs 85-119): idx is the 0-based position of the group.
DiffGroup(idx, group) ==
    (IF idx > 0 THEN <<SepEv>> ELSE << >>)
        \o [i \in 1..Len(group) |-> ChangeEv(group[i])]

DiffBody(groups) == Flatten([i \in 1..Len(groups) |-> DiffGroup(i - 1, groups[i])])

----
\* paths.sort() (render.rs 36).
RECURSIVE Insert(_, _)
Insert(x, s) ==
    IF s = << >> THEN <<x>>
    ELSE IF PathLess(Head(s), x) THEN <<Head(s)>> \o Insert(x, Tail(s))
    ELSE <<x>> \o s

\* paths left in the order the keys were iterated in.
UnsortedPaths(s) == s

RECURSIVE SortPaths(_)
SortPaths(s) == IF s = << >> THEN << >> ELSE Insert(Head(s), SortPaths(Tail(s)))

\* lint_messages.keys(): the keys in any iteration order.
Keys(m) == {s \in [1..Cardinality(DOMAIN m) -> DOMAIN m] :
               \A i, j \in DOMAIN s : i # j => s[i] # s[j]}

\* The Vec walked from its end.
MessageFromEnd(msgs, pos) == msgs[Len(msgs) + 1 - pos]

\* The element the loop over a Vec is at.
CurrentMessage(msgs, pos) == msgs[pos]

\* The line looked at before the diff pair.
BodyKindLineFirst(f) ==
    IF IsSome(f.line) THEN "context"
    ELSE IF IsSome(f.original) /\ IsSome(f.replacement) THEN "diff"
    ELSE "none"

\* The branch of the body (render.rs 79-81, 122).
BodyKind(f) ==
    IF IsSome(f.original) /\ IsSome(f.replacement) THEN "diff"
    ELSE IF IsSome(f.line) THEN "context"
    ELSE "none"

----
\* render_lint_messages (render.rs 20-165).
Offset(lens, p) == Sum(lens, {q \in DOMAIN lens : q < p})

RenderIdle ==
    /\ lint_messages = << >>
    /\ paths = << >>
    /\ path_pos = 0
    /\ msg_pos = 0
    /\ pc = "idle"
    /\ stdout = << >>
    /\ result = "None"
    /\ err_path = None
    /\ cwd_calls = << >>
    /\ rel_calls = << >>
    /\ file_reads = << >>

WindowIdle ==
    /\ w_lines = 0
    /\ w_line_number = 0
    /\ w_out = << >>
    /\ w_res = "Idle"

DiffIdle ==
    /\ d_groups = << >>
    /\ d_idx = 0
    /\ d_out = << >>

ErrorIdle ==
    /\ chain = << >>
    /\ chain_pos = 0
    /\ stderr = << >>
    /\ e_res = "Idle"

\* Any mapping of at most MaxPaths paths holding at most MaxTotalFindings
\* findings in all; a path may map to the empty Vec.
Init ==
    /\ \E S \in SUBSET Paths : \E lens \in [S -> 0..MaxTotalFindings] :
         /\ Sum(lens, S) <= MaxTotalFindings
         /\ \E flat \in [1..Sum(lens, S) -> LintMessage] :
              lint_messages =
                  [p \in S |-> SubSeq(flat, Offset(lens, p) + 1, Offset(lens, p) + lens[p])]
    /\ paths = << >>
    /\ path_pos = 0
    /\ msg_pos = 0
    /\ pc = "start"
    /\ stdout = << >>
    /\ result = "None"
    /\ err_path = None
    /\ cwd_calls = << >>
    /\ rel_calls = << >>
    /\ file_reads = << >>
    /\ WindowIdle
    /\ DiffIdle
    /\ ErrorIdle

\* The function returns res (`?` on an Err, the unwrap of a None, or Ok).
Return(res, errp) ==
    /\ pc' = "done"
    /\ result' = res
    /\ err_path' = errp

\* The empty mapping noticed only after the current directory was asked for.
RenderEmptyAfterCwd ==
    /\ pc = "start"
    /\ DOMAIN lint_messages = {}
    /\ cwd_calls' = Append(cwd_calls, "Ok")
    /\ stdout' = Append(stdout, OkEv)
    /\ Return("No", None)
    /\ UNCHANGED <<lint_messages, paths, path_pos, msg_pos, rel_calls, file_reads>>
    /\ UNCHANGED <<window_vars, diff_vars, error_vars>>

\* render.rs 24-28: the empty mapping.
RenderEmpty ==
    /\ pc = "start"
    /\ DOMAIN lint_messages = {}
    /\ \/ stdout' = Append(stdout, OkEv) /\ Return("No", None)
       \/ stdout' = stdout /\ Return("Err_Io", None)
    /\ UNCHANGED <<lint_messages, paths, path_pos, msg_pos, cwd_calls, rel_calls,
                   file_reads>>
    /\ UNCHANGED <<window_vars, diff_vars, error_vars>>

\* render.rs 34-36: collect the keys and sort them.
CollectPaths ==
    /\ pc = "start"
    /\ DOMAIN lint_messages # {}
    /\ \E keys \in Keys(lint_messages) : paths' = SortPaths(keys)
    /\ path_pos' = 1
    /\ pc' = "path"
    /\ UNCHANGED <<lint_messages, msg_pos, stdout, result, err_path, cwd_calls, rel_calls,
                   file_reads>>
    /\ UNCHANGED <<window_vars, diff_vars, error_vars>>

\* render.rs 38-52: the header of the next path.  current_dir()? returns its
\* error, the unwrap of path_relative_from panics on None, and the two writes
\* return theirs.
FileHeader ==
    /\ pc = "path"
    /\ path_pos <= Len(paths)
    /\ LET path == paths[path_pos] IN
       \E cd \in CurrentDirResults :
         /\ cwd_calls' = Append(cwd_calls, cd)
         /\ IF cd = "Err"
            THEN /\ Return("Err_PathResolution", None)
                 /\ UNCHANGED <<rel_calls, stdout, msg_pos>>
            ELSE \E rel \in RelativeResults :
                   /\ rel_calls' = Append(rel_calls, [path |-> path, res |-> rel])
                   /\ IF rel = "None"
                      THEN /\ Return("Panic", None)
                           /\ UNCHANGED <<stdout, msg_pos>>
                      ELSE \/ /\ stdout' = Append(stdout, FileEv(path))
                              /\ msg_pos' = 1
                              /\ pc' = "finding"
                              /\ UNCHANGED <<result, err_path>>
                           \/ /\ Return("Err_Io", None)
                              /\ UNCHANGED <<stdout, msg_pos>>
    /\ UNCHANGED <<lint_messages, paths, path_pos, file_reads>>
    /\ UNCHANGED <<window_vars, diff_vars, error_vars>>

\* The finding is done: on to the next one.
Continue ==
    /\ msg_pos' = msg_pos + 1
    /\ UNCHANGED <<pc, result, err_path>>

\* The finding ended the render with res.
Abort(res, errp) ==
    /\ Return(res, errp)
    /\ UNCHANGED msg_pos

\* render.rs 83-121: the header is written, then a blank line, the lines of
\* the diff and a blank line; written is the number of writes that succeed.
DiffFinding(f) ==
    \E groups \in RenderDiffs :
      LET body == DiffBody(groups) IN
      \E written \in 0..(Len(body) + 3) :
        /\ stdout' = stdout
               \o (IF written >= 1 THEN <<FindingEv(f)>> ELSE << >>)
               \o SubSeq(body, 1, Min(Len(body), saturating_sub(written, 2)))
        /\ UNCHANGED file_reads
        /\ IF written = Len(body) + 3 THEN Continue ELSE Abort("Err_Io", None)

\* render.rs 122-160: the header and a blank line are written, the file is
\* read again, and the window is written, then a blank line.
ContextFinding(path, f) ==
    \/ \E written \in 0..1 :
         /\ stdout' = stdout \o (IF written = 1 THEN <<FindingEv(f)>> ELSE << >>)
         /\ UNCHANGED file_reads
         /\ Abort("Err_Io", None)
    \/ \E rd \in ReadResults :
         /\ file_reads' = Append(file_reads, [path |-> path, res |-> rd])
         /\ IF rd = Unreadable
            THEN /\ stdout' = Append(stdout, FindingEv(f))
                 /\ Abort("Err_FileRead", Some(path))
            ELSE LET cw == ContextWindow(rd, f.line[1])
                     n == Len(cw.out) IN
                 \E written \in 0..(n + 1) :
                   /\ stdout' = stdout \o <<FindingEv(f)>> \o SubSeq(cw.out, 1, Min(n, written))
                   /\ IF written < n THEN Abort("Err_Io", None)
                      ELSE IF cw.err THEN Abort("Err_LineMismatch", None)
                      ELSE IF written = n THEN Abort("Err_Io", None)
                      ELSE Continue

\* Neither: the header only.
PlainFinding(f) ==
    /\ UNCHANGED file_reads
    /\ \/ stdout' = Append(stdout, FindingEv(f)) /\ Continue
       \/ stdout' = stdout /\ Abort("Err_Io", None)

\* render.rs 54-161: one finding of the current path.
RenderFinding ==
    /\ pc = "finding"
    /\ msg_pos <= Len(lint_messages[paths[path_pos]])
    /\ LET path == paths[path_pos]
           f == CurrentMessage(lint_messages[path], msg_pos) IN
       CASE BodyKind(f) = "diff" -> DiffFinding(f)
         [] BodyKind(f) = "context" -> ContextFinding(path, f)
         [] OTHER -> PlainFinding(f)
    /\ UNCHANGED <<lint_messages, paths, path_pos, cwd_calls, rel_calls>>
    /\ UNCHANGED <<window_vars, diff_vars, error_vars>>

\* The inner loop is over: the next path.
NextPath ==
    /\ pc = "finding"
    /\ msg_pos > Len(lint_messages[paths[path_pos]])
    /\ path_pos' = path_pos + 1
    /\ pc' = "path"
    /\ UNCHANGED <<lint_messages, paths, msg_pos, stdout, result, err_path, cwd_calls,
                   rel_calls, file_reads>>
    /\ UNCHANGED <<window_vars, diff_vars, error_vars>>

\* Yes only when a finding was printed.
ReturnYesIfFindings ==
    /\ pc = "path"
    /\ path_pos > Len(paths)
    /\ Return(IF \E q \in 1..Len(stdout) : stdout[q].k = "finding" THEN "Yes" ELSE "No", None)
    /\ UNCHANGED <<lint_messages, paths, path_pos, msg_pos, stdout, cwd_calls, rel_calls,
                   file_reads>>
    /\ UNCHANGED <<window_vars, diff_vars, error_vars>>

\* render.rs 164.
ReturnYes ==
    /\ pc = "path"
    /\ path_pos > Len(paths)
    /\ Return("Yes", None)
    /\ UNCHANGED <<lint_messages, paths, path_pos, msg_pos, stdout, cwd_calls, rel_calls,
                   file_reads>>
    /\ UNCHANGED <<window_vars, diff_vars, error_vars>>

Next ==
    \/ RenderEmpty
    \/ CollectPaths
    \/ FileHeader
    \/ RenderFinding
    \/ NextPath
    \/ ReturnYes

Spec == Init /\ [][Next]_vars

----
\* The context window alone: every file length and every line.
InitWindow ==
    /\ RenderIdle
    /\ DiffIdle
    /\ ErrorIdle
    /\ w_lines \in 0..MaxFileLines
    /\ w_line_number \in 0..MaxLine
    /\ w_out = << >>
    /\ w_res = "Pending"

\* render.rs 129-157 on a file of w_lines lines and the line w_line_number.
Extract ==
    /\ w_res = "Pending"
    /\ LET cw == ContextWindow(w_lines, w_line_number) IN
         /\ w_out' = cw.out
         /\ w_res' = IF cw.err THEN "Err_LineMismatch" ELSE "Ok"
    /\ UNCHANGED <<w_lines, w_line_number>>
    /\ UNCHANGED <<render_vars, diff_vars, error_vars>>

NextWindow == Extract

SpecWindow == InitWindow /\ [][NextWindow]_vars

----
\* The loop over the groups of a diff alone (render.rs 85-119).
GroupSeqs == UNION {[1..h -> Groups] : h \in 0..MaxHunks}

InitDiff ==
    /\ RenderIdle
    /\ WindowIdle
    /\ ErrorIdle
    /\ d_groups \in GroupSeqs
    /\ d_idx = 0
    /\ d_out = << >>

\* One iteration of `for (idx, group) in diff.grouped_ops(3).iter().enumerate()`.
DiffStep ==
    /\ d_idx < Len(d_groups)
    /\ d_out' = d_out \o DiffGroup(d_idx, d_groups[d_idx + 1])
    /\ d_idx' = d_idx + 1
    /\ UNCHANGED d_groups
    /\ UNCHANGED <<render_vars, window_vars, error_vars>>

NextDiff == DiffStep

SpecDiff == InitDiff /\ [][NextDiff]_vars

----
\* print_error (render.rs 189-207).
Msgs == 1..MaxMsgs

\* err.chain(): the error itself, then its causes, outermost first.
Chains == UNION {[1..n -> Msgs] : n \in 1..(MaxCauses + 1)}

ErrorLine(error) == [label |-> "error:", msg |-> error]

\* A cause under the label of the error.
CauseLineAsError(cause) == [label |-> "error:", msg |-> cause]

CauseLine(cause) == [label |-> "caused_by:", msg |-> cause]

InitError ==
    /\ RenderIdle
    /\ WindowIdle
    /\ DiffIdle
    /\ chain \in Chains
    /\ chain_pos = 1
    /\ stderr = << >>
    /\ e_res = "Pending"

\* render.rs 193-196: chain.next() is the error; its writes may fail.
PrintTop ==
    /\ e_res = "Pending"
    /\ chain_pos = 1
    /\ chain_pos <= Len(chain)
    /\ \/ /\ stderr' = Append(stderr, ErrorLine(chain[chain_pos]))
          /\ chain_pos' = chain_pos + 1
          /\ UNCHANGED e_res
       \/ /\ e_res' = "Err_Io"
          /\ UNCHANGED <<stderr, chain_pos>>
    /\ UNCHANGED chain
    /\ UNCHANGED <<render_vars, window_vars, diff_vars>>

\* render.rs 198-203: one cause of the rest of the chain.
PrintCause ==
    /\ e_res = "Pending"
    /\ chain_pos > 1
    /\ chain_pos <= Len(chain)
    /\ \/ /\ stderr' = Append(stderr, CauseLine(chain[chain_pos]))
          /\ chain_pos' = chain_pos + 1
          /\ UNCHANGED e_res
       \/ /\ e_res' = "Err_Io"
          /\ UNCHANGED <<stderr, chain_pos>>
    /\ UNCHANGED chain
    /\ UNCHANGED <<render_vars, window_vars, diff_vars>>

\* render.rs 206.
ErrorReturn ==
    /\ e_res = "Pending"
    /\ chain_pos > Len(chain)
    /\ e_res' = "Ok"
    /\ UNCHANGED <<chain, chain_pos, stderr>>
    /\ UNCHANGED <<render_vars, window_vars, diff_vars>>

NextError == PrintTop \/ PrintCause \/ ErrorReturn

SpecError == InitError /\ [][NextError]_vars

----
\* What the output shows.
HeaderPos == {q \in 1..Len(stdout) : stdout[q].k = "file"}

HeaderEvs == SelectSeq(stdout, LAMBDA e : e.k = "file")

HeaderPaths == [i \in 1..Len(HeaderEvs) |-> HeaderEvs[i].path]

\* The position of the first file header after pos, or the end of the output.
SectionEnd(pos) ==
    IF \E q \in HeaderPos : q > pos
    THEN (CHOOSE q \in HeaderPos : q > pos /\ \A r \in HeaderPos : r > pos => q <= r) - 1
    ELSE Len(stdout)

\* The findings whose headers stand in the section of the file header at pos.
SectionFindings(pos) ==
    LET evs == SelectSeq(SubSeq(stdout, pos + 1, SectionEnd(pos)),
                         LAMBDA e : e.k = "finding")
    IN [i \in 1..Len(evs) |-> evs[i].f]

BodyEvs == SelectSeq(stdout, LAMBDA e : e.k \in {"sep", "change", "ctx"})

Failed == result \in {"Err_Io", "Err_PathResolution", "Err_FileRead", "Err_LineMismatch",
                      "Panic"}

----
\* C1: the file headers printed so far are in strictly ascending order of
\* their paths and are paths of the mapping, whatever order the keys were
\* iterated in; when the render returns Yes, every path of the mapping has
\* its header, once.
C1_HeadersAscending ==
    LET h == HeaderPaths IN
    /\ \A i, j \in 1..Len(h) : i < j => PathLess(h[i], h[j])
    /\ \A i \in 1..Len(h) : h[i] \in DOMAIN lint_messages
    /\ result = "Yes" =>
         /\ {h[i] : i \in 1..Len(h)} = DOMAIN lint_messages
         /\ Len(h) = Cardinality(DOMAIN lint_messages)

C1_Witness ==
    /\ result = "Yes"
    /\ Len(HeaderPaths) >= 2

\* C10: no finding header stands before the first file header; the finding
\* headers in the section of a file header are a prefix of the findings of
\* that path, in the order of the input, and are all of them once the next
\* file header is printed or the render has returned Yes.
C10_FindingsInInputOrder ==
    LET hp == HeaderPos IN
    /\ \A q \in 1..Len(stdout) :
         stdout[q].k = "finding" => \E r \in hp : r < q
    /\ \A pos \in hp :
         LET msgs == lint_messages[stdout[pos].path]
             shown == SectionFindings(pos) IN
         /\ IsPrefix(shown, msgs)
         /\ (SectionEnd(pos) < Len(stdout) \/ result = "Yes") => Len(shown) = Len(msgs)

C10_Witness ==
    /\ result = "Yes"
    /\ \E pos \in HeaderPos :
         LET shown == SectionFindings(pos) IN
         /\ Len(shown) = 2
         /\ shown[1] # shown[2]

\* C5: a render that returned without an error returned Yes when the mapping
\* was not empty and No when it was empty.
C5_PrintedIffNonEmpty ==
    (pc = "done" /\ ~Failed) =>
        result = (IF DOMAIN lint_messages = {} THEN "No" ELSE "Yes")

C5_Witness ==
    /\ result = "Yes"
    /\ BodyEvs = << >>
    /\ \E p \in DOMAIN lint_messages : Len(lint_messages[p]) = 0
    /\ \E q \in 1..Len(stdout) :
         /\ stdout[q].k = "finding"
         /\ ~IsSome(stdout[q].f.line)
         /\ ~(IsSome(stdout[q].f.original) /\ IsSome(stdout[q].f.replacement))

\* C6: the render of the empty mapping asks for no current directory,
\* relativizes no path, reads no file and prints nothing but the confirmation
\* line; unless the write of that line failed, it prints it once and
\* returns No.
C6_EmptyMapping ==
    DOMAIN lint_messages = {} =>
        /\ cwd_calls = << >>
        /\ rel_calls = << >>
        /\ file_reads = << >>
        /\ stdout \in {<< >>, <<OkEv>>}
        /\ (pc = "done" /\ result # "Err_Io") => (stdout = <<OkEv>> /\ result = "No")

C6_Witness ==
    /\ DOMAIN lint_messages = {}
    /\ result = "No"
    /\ stdout = <<OkEv>>

\* C7: a step that renders a finding prints its header first.  With both
\* original and replacement the body is made of diff lines and separators and
\* the file is not read, whether or not there is a line.  Otherwise, with a
\* line, the body is made of context lines, the file of the path is read
\* (unless a write failed before), and an unreadable file ends the render with
\* the file read error carrying the path and no body.  Otherwise the step
\* prints no body and reads no file.
C7_Step ==
    (pc = "finding" /\ msg_pos <= Len(lint_messages[paths[path_pos]])) =>
        LET path == paths[path_pos]
            f == lint_messages[path][msg_pos]
            new == SubSeq(stdout', Len(stdout) + 1, Len(stdout'))
            body == IF new = << >> THEN << >> ELSE Tail(new)
            both == IsSome(f.original) /\ IsSome(f.replacement)
            read == file_reads' # file_reads
            last == file_reads'[Len(file_reads')]
        IN
        /\ new # << >> => Head(new) = FindingEv(f)
        /\ both =>
             /\ ~read
             /\ \A i \in 1..Len(body) : body[i].k \in {"sep", "change"}
             /\ result' \in {result, "Err_Io"}
        /\ (~both /\ IsSome(f.line)) =>
             /\ \A i \in 1..Len(body) : body[i].k = "ctx"
             /\ read => /\ Len(file_reads') = Len(file_reads) + 1
                        /\ SubSeq(file_reads', 1, Len(file_reads)) = file_reads
                        /\ last.path = path
             /\ result' # "Err_Io" => read
             /\ body # << >> => read
             /\ (read /\ last.res = Unreadable) =>
                    /\ result' = "Err_FileRead"
                    /\ err_path' = Some(path)
                    /\ pc' = "done"
                    /\ body = << >>
             /\ result' = "Err_FileRead" => (read /\ last.res = Unreadable)
        /\ (~both /\ ~IsSome(f.line)) =>
             /\ ~read
             /\ body = << >>
             /\ result' \in {result, "Err_Io"}

C7_BodyByPriority == [][C7_Step]_vars

C7_Witness ==
    /\ file_reads = << >>
    /\ \E q \in 1..(Len(stdout) - 1) :
         /\ stdout[q].k = "finding"
         /\ IsSome(stdout[q].f.original)
         /\ IsSome(stdout[q].f.replacement)
         /\ IsSome(stdout[q].f.line)
         /\ stdout[q + 1].k = "change"

\* C3: when the current directory cannot be determined, or a path cannot be
\* expressed relative to it, the render returns the path resolution error and
\* has printed no file header for that path.
C3_PathErrorReturned ==
    /\ \A i \in DOMAIN cwd_calls :
         cwd_calls[i] = "Err" => result = "Err_PathResolution"
    /\ \A i \in DOMAIN rel_calls :
         rel_calls[i].res = "None" =>
             /\ result = "Err_PathResolution"
             /\ \A q \in HeaderPos : stdout[q].path # rel_calls[i].path

----
\* C2: an extraction whose line is greater than the number of lines of the
\* file ends with the line mismatch error.
C2_BeyondEndFails ==
    (w_res \in {"Ok", "Err_LineMismatch"} /\ w_line_number > w_lines) =>
        w_res = "Err_LineMismatch"

\* C4: for a line t of a file of N lines, 1 <= t <= N, the extraction ends
\* without an error and prints the lines max(1, t-3) .. min(N, t+3) in
\* ascending order, with the chevron on line t and on no other.
C4_WindowClipped ==
    (w_res \in {"Ok", "Err_LineMismatch"} /\ 1 <= w_line_number /\ w_line_number <= w_lines) =>
        LET lo == Max(1, w_line_number - 3)
            hi == Min(w_lines, w_line_number + 3) IN
        /\ w_res = "Ok"
        /\ w_out = [i \in 1..(hi - lo + 1) |-> CtxEv(lo + i - 1, lo + i - 1 = w_line_number)]
        /\ Cardinality({i \in 1..Len(w_out) : w_out[i].hl}) = 1

C4_Witness ==
    /\ w_res = "Ok"
    /\ w_lines = 4
    /\ w_line_number = 2
    /\ Len(w_out) = 4
    /\ w_out[2].hl

----
\* C9: after the first g groups of a diff are written there are g - 1
\* separators (none for g <= 1), one right before each group but the first,
\* and none at the start or at the end of what is written.
ChangesBefore(g) == Sum([i \in 1..Len(d_groups) |-> Len(d_groups[i])], 1..(g - 1))

C9_SeparatorsBetweenHunks ==
    LET seps == Cardinality({q \in 1..Len(d_out) : d_out[q] = SepEv}) IN
    /\ seps = (IF d_idx <= 1 THEN 0 ELSE d_idx - 1)
    /\ \A g \in 2..d_idx : d_out[ChangesBefore(g) + g - 1] = SepEv
    /\ Len(d_out) = ChangesBefore(d_idx + 1) + seps
    /\ d_out # << >> => (d_out[1] # SepEv /\ d_out[Len(d_out)] # SepEv)

C9_Witness ==
    /\ Len(d_groups) = 3
    /\ d_idx = 3
    /\ Cardinality({q \in 1..Len(d_out) : d_out[q] = SepEv}) = 2

----
\* C8: what print_error has written is a prefix of: one error: line for the
\* error, then one caused_by: line for each cause, outermost first; when it
\* returns Ok it has written all of them, and it returns an error only when a
\* write failed, so that an error without causes is printed as its error:
\* line alone.
ExpectedLines ==
    [i \in 1..Len(chain) |->
        [label |-> IF i = 1 THEN "error:" ELSE "caused_by:", msg |-> chain[i]]]

C8_ErrorThenCauses ==
    /\ IsPrefix(stderr, ExpectedLines)
    /\ e_res = "Ok" => stderr = ExpectedLines
    /\ e_res = "Err_Io" => Len(stderr) < Len(chain)

C8_Witness ==
    /\ e_res = "Ok"
    /\ Len(chain) = 3
    /\ chain[2] # chain[3]
    /\ Len(stderr) = 3

====
